---- MODULE Spec2Model ----
(***************************************************************************)
(* A model of the Huffman codec of a2-namyong1/compress.py, of the binary   *)
(* search tree of prep9-namyong1/prep9.py and of the ride simulation of     *)
(* "Ai ultimate final".                                                    *)
(*                                                                         *)
(* Python values are represented as follows.                               *)
(*   - None is the empty tuple <<>> and a present optional value x is the  *)
(*     one-element tuple <<x>> (fields symbol, left, right, number of a    *)
(*     HuffmanTree).                                                       *)
(*   - A dict is the sequence of its <<key, value>> pairs in insertion     *)
(*     order (Python dicts keep insertion order, and sorted() is stable).  *)
(*   - bytes and str are sequences of integers 0..255 and of the           *)
(*     one-character strings "0" and "1".                                  *)
(*   - An entry of the working list of build_huffman_tree is the tuple     *)
(*     <<item, weight>>; item is <<"int", symbol>> or <<"tree", t>>, the   *)
(*     tag standing for what isinstance(item, int) answers.                *)
(***************************************************************************)
EXTENDS Integers, Sequences, FiniteSets, TLC

VARIABLES
    pc,        \* the position of the running function
    text,      \* compress_file: the bytes read from in_file
    freq,      \* the frequency dictionary
    data,      \* build_huffman_tree: the working list
    iters,     \* build_huffman_tree: iterations of the for loop still to run
    tree,      \* the HuffmanTree being built, numbered or improved
    codes,     \* the dictionary returned by get_codes
    given,     \* the tree as it was handed to the function that mutates it
    avg,       \* avg_length: <<weighted sum of code lengths, total frequency>>
    artifact,  \* the bytes compress_file writes and decompress_file reads
    restored,  \* decompress_file: the tree rebuilt from the artifact
    out,       \* decompress_file: the bytes written to out_file
    arg_packed,     \* the bytes compress_bytes returns and decompress_bytes is given
    arg_size,       \* decompress_bytes: the number of bytes to decompress
    tree_bytes,     \* the bytes tree_to_bytes returns
    arg_node_lst,   \* generate_tree_...: the list of ReadNodes
    arg_root_index, \* generate_tree_...: the index of the root in the list
    bst,            \* prep9: the BinarySearchTree a method is called on
    arg_item,       \* prep9: the item given to count or smaller
    returned,       \* what the last method called on its own returned
    events,         \* simulation: the events still to be done
    riders,         \* simulation: the Rider objects, by id
    drivers,        \* simulation: the Driver objects, by id
    waiting_list_rider,   \* Dispatcher._waiting_list_rider, the ids of the riders
    waiting_list_driver,  \* Dispatcher._waiting_list_driver, the ids of the drivers
    activities      \* Monitor._activities, in the order of the notifications

vars == <<pc, text, freq, data, iters, tree, codes, given, avg, artifact, restored, out,
          arg_packed, arg_size, tree_bytes, arg_node_lst, arg_root_index,
          bst, arg_item, returned, events, riders, drivers,
          waiting_list_rider, waiting_list_driver, activities>>

\* the arguments of the functions that are called on their own
args == <<arg_packed, arg_size, tree_bytes, arg_node_lst, arg_root_index>>

\* the state of the codec but pc
codec == <<text, freq, data, iters, tree, codes, given, avg, artifact, restored, out, args>>

\* the state of the ride simulation
simulation == <<events, riders, drivers, waiting_list_rider, waiting_list_driver, activities>>

\* the state outside the codec
others == <<bst, arg_item, returned, simulation>>

(***************************************************************************)
(* Bounds of the model.                                                    *)
(***************************************************************************)
MaxLen == 4       \* longest text
MaxKeys == 3      \* most symbols in a frequency table drawn directly
MaxCount == 3     \* largest frequency in a table drawn directly
MaxLeaves == 4    \* most leaves of a tree drawn directly
MaxSerialLeaves == 5   \* most leaves of a tree given to tree_to_bytes on its own
MaxNodes == 2     \* most records of a list given to a generate_tree function on its own
MaxTableKeys == 12     \* the symbols of the largest table given to build_huffman_tree
MaxBSTNodes == 3  \* most items of a BinarySearchTree
MaxItem == 3      \* largest item of a BinarySearchTree
MaxWaiting == 3   \* longest waiting list of a Dispatcher called on its own
MaxTime == 1      \* latest timestamp of an event of the events file
MaxPatience == 2  \* largest patience of a rider
MaxText == 3      \* longest text given to compress_bytes on its own
MaxPacked == 2    \* most bytes given to decompress_bytes on their own
MaxSize == 5      \* largest size given to decompress_bytes on its own

\* The byte values the texts, tables and trees with several symbols draw from.
AlphabetSeq == <<0, 65, 66, 255>>

Alphabet == {AlphabetSeq[i] : i \in 1..Len(AlphabetSeq)}

\* The symbols a tree drawn directly may hold on several leaves.
RepeatedSymbols == {0, 255}

Byte == 0..255

None == <<>>

Some(x) == <<x>>

(***************************************************************************)
(* dict                                                                    *)
(***************************************************************************)
Keys(d) == {d[i][1] : i \in 1..Len(d)}

HasKey(d, k) == \E i \in 1..Len(d) : d[i][1] = k

\* d[k], for a key d has
Lookup(d, k) == d[CHOOSE i \in 1..Len(d) : d[i][1] = k][2]

\* d.get(k, default)
DictGet(d, k, default) == IF HasKey(d, k) THEN Lookup(d, k) ELSE default

\* d[k] = v: a key d has keeps its place, a new key goes last
DictSet(d, k, v) ==
    IF HasKey(d, k)
    THEN [i \in 1..Len(d) |-> IF d[i][1] = k THEN <<k, v>> ELSE d[i]]
    ELSE Append(d, <<k, v>>)

RECURSIVE SumValues(_)
\* sum(d.values())
SumValues(d) == IF d = <<>> THEN 0 ELSE d[1][2] + SumValues(Tail(d))

(***************************************************************************)
(* HuffmanTree                                                             *)
(***************************************************************************)
HuffmanTree(symbol, left, right) ==
    [symbol |-> symbol, left |-> left, right |-> right, number |-> None]

Leaf(s) == HuffmanTree(Some(s), None, None)

Node(l, r) == HuffmanTree(None, Some(l), Some(r))

is_leaf(t) == t.left = None /\ t.right = None

(***************************************************************************)
(* build_frequency_dict                                                    *)
(***************************************************************************)
\* build_frequency_dict that starts every count again instead of adding to it
CountByteNoSum(freq_dict, byte) == DictSet(freq_dict, byte, 1)

CountByte(freq_dict, byte) == DictSet(freq_dict, byte, DictGet(freq_dict, byte, 0) + 1)

RECURSIVE freq_loop(_, _, _)
freq_loop(t, i, freq_dict) ==
    IF i > Len(t) THEN freq_dict
    ELSE freq_loop(t, i + 1, CountByte(freq_dict, t[i]))

\* build_frequency_dict that leaves the first byte uncounted
build_frequency_dict_from_second(t) == freq_loop(t, 2, <<>>)

build_frequency_dict(t) == freq_loop(t, 1, <<>>)

(***************************************************************************)
(* build_huffman_tree                                                      *)
(***************************************************************************)
\* The place a stable ascending sort gives an item among the sorted ones
\* before it: after every item whose key is not larger.
RECURSIVE StablePlace(_, _, _)
StablePlace(s, w, i) ==
    IF i > Len(s) \/ s[i][2] > w THEN i - 1 ELSE StablePlace(s, w, i + 1)

InsertAt(s, lo, e) == SubSeq(s, 1, lo) \o <<e>> \o SubSeq(s, lo + 1, Len(s))

RECURSIVE StableSort(_, _, _)
StableSort(items, i, acc) ==
    IF i > Len(items) THEN acc
    ELSE StableSort(items, i + 1,
                    InsertAt(acc, StablePlace(acc, items[i][2], 1), items[i]))

\* freq_dict.items(), each symbol an int
Items(freq_dict) ==
    [i \in 1..Len(freq_dict) |-> <<(<<"int", freq_dict[i][1]>>), freq_dict[i][2]>>]

\* build_huffman_tree that leaves the items in the order of the dictionary
UnsortedItems(freq_dict) == Items(freq_dict)

\* sorted(freq_dict.items(), key=lambda x: x[1])
SortedItems(freq_dict) == StableSort(Items(freq_dict), 1, <<>>)

IsInt(item) == item[1] = "int"

\* HuffmanTree(s[0]) if isinstance(s[0], int) else s[0]
AsTree(item) == IF IsInt(item) THEN Leaf(item[2]) ELSE item[2]

\* the merged tree with the first popped item on both sides
Merged_first_twice(s1, s2) == Node(AsTree(s1[1]), AsTree(s1[1]))

Merged(s1, s2) == Node(AsTree(s1[1]), AsTree(s2[1]))

RECURSIVE bisect_before(_, _, _, _)
\* the while loop with > for >=: the merged entry goes before its equals
bisect_before(d, freq_sum, lo, hi) ==
    IF lo < hi
    THEN LET mid == (lo + hi) \div 2
         IN  IF freq_sum > d[mid + 1][2]
             THEN bisect_before(d, freq_sum, mid + 1, hi)
             ELSE bisect_before(d, freq_sum, lo, mid)
    ELSE lo

\* no search: the merged entry goes to the front of the list
bisect_front(d, freq_sum, lo, hi) == lo

RECURSIVE bisect(_, _, _, _)
\* the while loop: the index (from 0) the merged entry is inserted at
bisect(d, freq_sum, lo, hi) ==
    IF lo < hi
    THEN LET mid == (lo + hi) \div 2
         IN  IF freq_sum >= d[mid + 1][2]
             THEN bisect(d, freq_sum, mid + 1, hi)
             ELSE bisect(d, freq_sum, lo, mid)
    ELSE lo

\* one iteration of the for loop
MergeInto(d) ==
    LET s1 == d[1]
        s2 == d[2]
        rest == SubSeq(d, 3, Len(d))
        freq_sum == s1[2] + s2[2]
    IN  InsertAt(rest, bisect(rest, freq_sum, 0, Len(rest)),
                 <<(<<"tree", Merged(s1, s2)>>), freq_sum>>)

\* a right leaf that leaves the bytes for d = 255
DummySymbolNext(d) == d + 1

\* the right leaf given to the tree of a single symbol d
DummySymbol(d) == 255 - d

SingleSymbolTree(d) == Node(Leaf(d), Leaf(DummySymbol(d)))

(***************************************************************************)
(* get_codes                                                               *)
(***************************************************************************)
RECURSIVE get_codes_helper_no_pop(_, _, _)
\* get_codes that goes right without popping the '0' of the left step
get_codes_helper_no_pop(node, code, cods) ==
    IF is_leaf(node)
    THEN DictSet(cods, node.symbol[1], code)
    ELSE LET c1 == get_codes_helper_no_pop(node.left[1], Append(code, "0"), cods)
         IN  get_codes_helper_no_pop(node.right[1], Append(Append(code, "0"), "1"), c1)

RECURSIVE get_codes_helper_swapped(_, _, _)
\* get_codes that writes '1' for a left step and '0' for a right step
get_codes_helper_swapped(node, code, cods) ==
    IF is_leaf(node)
    THEN DictSet(cods, node.symbol[1], code)
    ELSE LET c1 == get_codes_helper_swapped(node.left[1], Append(code, "1"), cods)
         IN  get_codes_helper_swapped(node.right[1], Append(code, "0"), c1)

RECURSIVE get_codes_helper(_, _, _)
get_codes_helper(node, code, cods) ==
    IF is_leaf(node)
    THEN DictSet(cods, node.symbol[1], code)
    ELSE LET c1 == get_codes_helper(node.left[1], Append(code, "0"), cods)
         IN  get_codes_helper(node.right[1], Append(code, "1"), c1)

get_codes(t) == get_codes_helper(t, <<>>, <<>>)

(***************************************************************************)
(* number_nodes                                                            *)
(***************************************************************************)
RECURSIVE number_nodes_helper_restart(_, _)
\* number_nodes that numbers the right subtree from the count the left one began with
number_nodes_helper_restart(t, count) ==
    IF is_leaf(t)
    THEN [t |-> t, count |-> 0]
    ELSE LET l == IF ~is_leaf(t.left[1])
                  THEN number_nodes_helper_restart(t.left[1], count)
                  ELSE [t |-> t.left[1], count |-> count]
             r == IF ~is_leaf(t.right[1])
                  THEN number_nodes_helper_restart(t.right[1], count)
                  ELSE [t |-> t.right[1], count |-> l.count]
         IN  [t |-> [t EXCEPT !.left = Some(l.t), !.right = Some(r.t),
                              !.number = Some(r.count)],
              count |-> r.count + 1]

RECURSIVE number_nodes_helper(_, _)
\* the helper's effect on t and the count it returns
number_nodes_helper(t, count) ==
    IF is_leaf(t)
    THEN [t |-> t, count |-> 0]
    ELSE LET l == IF ~is_leaf(t.left[1])
                  THEN number_nodes_helper(t.left[1], count)
                  ELSE [t |-> t.left[1], count |-> count]
             r == IF ~is_leaf(t.right[1])
                  THEN number_nodes_helper(t.right[1], l.count)
                  ELSE [t |-> t.right[1], count |-> l.count]
         IN  [t |-> [t EXCEPT !.left = Some(l.t), !.right = Some(r.t),
                              !.number = Some(r.count)],
              count |-> r.count + 1]

number_nodes(t) == number_nodes_helper(t, 0).t

(***************************************************************************)
(* improve_tree                                                            *)
(***************************************************************************)
RECURSIVE improve_tree_leaves(_)
improve_tree_leaves(t) ==
    IF is_leaf(t) THEN <<t.symbol[1]>>
    ELSE improve_tree_leaves(t.left[1]) \o improve_tree_leaves(t.right[1])

RECURSIVE PlaceDescending(_, _, _, _)
\* The place a stable descending sort gives x among the sorted ones before
\* it: after every symbol whose frequency is not smaller.
PlaceDescending(s, x, freq_dict, i) ==
    IF i > Len(s) \/ Lookup(freq_dict, s[i]) < Lookup(freq_dict, x) THEN i - 1
    ELSE PlaceDescending(s, x, freq_dict, i + 1)

RECURSIVE SortDescending(_, _, _, _)
SortDescending(ls, freq_dict, i, acc) ==
    IF i > Len(ls) THEN acc
    ELSE SortDescending(ls, freq_dict, i + 1,
                        InsertAt(acc, PlaceDescending(acc, ls[i], freq_dict, 1), ls[i]))

\* leaves.sort(key=lambda x: freq_dict[x], reverse=True)
SortedLeaves(ls, freq_dict) == SortDescending(ls, freq_dict, 1, <<>>)

RECURSIVE improve_tree_insertion_stuck(_, _, _)
\* improve_tree whose insertion returns index instead of index + 1 at a leaf
improve_tree_insertion_stuck(t, ls, index) ==
    IF is_leaf(t)
    THEN [t |-> [t EXCEPT !.symbol = Some(ls[index + 1])], index |-> index]
    ELSE LET l == improve_tree_insertion_stuck(t.left[1], ls, index)
             r == improve_tree_insertion_stuck(t.right[1], ls, l.index)
         IN  [t |-> [t EXCEPT !.left = Some(l.t), !.right = Some(r.t)],
              index |-> r.index]

RECURSIVE improve_tree_insertion(_, _, _)
\* the helper's effect on t and the index it returns; ls is indexed from 0
improve_tree_insertion(t, ls, index) ==
    IF is_leaf(t)
    THEN [t |-> [t EXCEPT !.symbol = Some(ls[index + 1])], index |-> index + 1]
    ELSE LET l == improve_tree_insertion(t.left[1], ls, index)
             r == improve_tree_insertion(t.right[1], ls, l.index)
         IN  [t |-> [t EXCEPT !.left = Some(l.t), !.right = Some(r.t)],
              index |-> r.index]

improve_tree(t, freq_dict) ==
    improve_tree_insertion(t, SortedLeaves(improve_tree_leaves(t), freq_dict), 0).t

(***************************************************************************)
(* avg_length                                                              *)
(***************************************************************************)
RECURSIVE avg_length_helper(_, _, _)
\* the total number of digits; f[t.symbol] must be there for every leaf
avg_length_helper(t, f, c) ==
    IF is_leaf(t) THEN Lookup(f, t.symbol[1]) * c
    ELSE avg_length_helper(t.left[1], f, c + 1) + avg_length_helper(t.right[1], f, c + 1)

RECURSIVE avg_length_raises(_, _)
\* f[t.symbol] raises KeyError at some leaf
avg_length_raises(t, f) ==
    IF is_leaf(t) THEN ~HasKey(f, t.symbol[1])
    ELSE avg_length_raises(t.left[1], f) \/ avg_length_raises(t.right[1], f)

(***************************************************************************)
(* utils: bits, bytes and nodes                                            *)
(***************************************************************************)
RECURSIVE Pow2(_)
Pow2(n) == IF n = 0 THEN 1 ELSE 2 * Pow2(n - 1)

get_bit(byte, bit_num) == (byte \div Pow2(bit_num)) % 2

BitChar(b) == IF b = 1 THEN "1" ELSE "0"

\* the 8 bits of byte, the most significant first
byte_to_bits(byte) == [k \in 1..8 |-> BitChar(get_bit(byte, 8 - k))]

int32_to_bytes(num) == [k \in 1..4 |-> (num \div Pow2(8 * (k - 1))) % 256]

RECURSIVE bytes_to_int(_)
bytes_to_int(buf) == IF buf = <<>> THEN 0 ELSE buf[1] + 256 * bytes_to_int(Tail(buf))

ReadNode(l_type, l_data, r_type, r_data) ==
    [l_type |-> l_type, l_data |-> l_data, r_type |-> r_type, r_data |-> r_data]

bytes_to_nodes(buf) ==
    [k \in 1..(Len(buf) \div 4) |->
        ReadNode(buf[4 * k - 3], buf[4 * k - 2], buf[4 * k - 1], buf[4 * k])]

\* the count of the nodes taken for the number of the root
num_nodes_to_bytes_root_number(t) == <<t.number[1]>>

num_nodes_to_bytes(t) == <<t.number[1] + 1>>

(***************************************************************************)
(* compress_bytes                                                          *)
(***************************************************************************)
RECURSIVE JoinCodes(_, _, _)
\* "".join([codes[i] for i in text])
JoinCodes(t, cods, i) ==
    IF i > Len(t) THEN <<>> ELSE Lookup(cods, t[i]) \o JoinCodes(t, cods, i + 1)

RECURSIVE pack_bits_no_shift(_, _, _, _, _)
\* compress_bytes that appends the last bits without shifting them left
pack_bits_no_shift(bits, i, buffer, count, result) ==
    IF i > Len(bits)
    THEN IF count > 0 THEN Append(result, buffer) ELSE result
    ELSE LET b == 2 * buffer + (IF bits[i] = "1" THEN 1 ELSE 0)
         IN  IF count + 1 = 8
             THEN pack_bits_no_shift(bits, i + 1, 0, 0, Append(result, b))
             ELSE pack_bits_no_shift(bits, i + 1, b, count + 1, result)

RECURSIVE pack_bits(_, _, _, _, _)
\* the for loop over bits and the flush of the remaining bits
pack_bits(bits, i, buffer, count, result) ==
    IF i > Len(bits)
    THEN IF count > 0 THEN Append(result, buffer * Pow2(8 - count)) ELSE result
    ELSE LET b == 2 * buffer + (IF bits[i] = "1" THEN 1 ELSE 0)
         IN  IF count + 1 = 8
             THEN pack_bits(bits, i + 1, 0, 0, Append(result, b))
             ELSE pack_bits(bits, i + 1, b, count + 1, result)

compress_bytes(t, cods) == pack_bits(JoinCodes(t, cods, 1), 1, 0, 0, <<>>)

(***************************************************************************)
(* tree_to_bytes                                                           *)
(***************************************************************************)
RECURSIVE tree_to_bytes_right_first(_)
\* tree_to_bytes that writes the right subtree before the left one
tree_to_bytes_right_first(t) ==
    IF ~is_leaf(t)
    THEN LET l == t.left[1]
             r == t.right[1]
         IN  (IF ~is_leaf(r) THEN tree_to_bytes_right_first(r) ELSE <<>>)
             \o (IF ~is_leaf(l) THEN tree_to_bytes_right_first(l) ELSE <<>>)
             \o <<IF ~is_leaf(l) THEN 1 ELSE 0,
                  IF ~is_leaf(l) THEN l.number[1] ELSE l.symbol[1],
                  IF ~is_leaf(r) THEN 1 ELSE 0,
                  IF ~is_leaf(r) THEN r.number[1] ELSE r.symbol[1]>>
    ELSE <<48>>

RECURSIVE tree_to_bytes(_)
tree_to_bytes(t) ==
    IF ~is_leaf(t)
    THEN LET l == t.left[1]
             r == t.right[1]
         IN  (IF ~is_leaf(l) THEN tree_to_bytes(l) ELSE <<>>)
             \o (IF ~is_leaf(r) THEN tree_to_bytes(r) ELSE <<>>)
             \o <<IF ~is_leaf(l) THEN 1 ELSE 0,
                  IF ~is_leaf(l) THEN l.number[1] ELSE l.symbol[1],
                  IF ~is_leaf(r) THEN 1 ELSE 0,
                  IF ~is_leaf(r) THEN r.number[1] ELSE r.symbol[1]>>
    ELSE <<48>>

(***************************************************************************)
(* generate_tree_general                                                   *)
(***************************************************************************)
\* nodes[i] can be built: every internal child is in nodes already
GeneralChildrenBuilt(node, nodes) ==
    /\ node.l_type = 0 \/ HasKey(nodes, node.l_data)
    /\ node.r_type = 0 \/ HasKey(nodes, node.r_data)

\* the node built with its children exchanged
GeneralNode_swapped(node, nodes) ==
    HuffmanTree(None,
                Some(IF node.r_type = 0 THEN Leaf(node.r_data)
                     ELSE Lookup(nodes, node.r_data)),
                Some(IF node.l_type = 0 THEN Leaf(node.l_data)
                     ELSE Lookup(nodes, node.l_data)))

GeneralNode(node, nodes) ==
    HuffmanTree(None,
                Some(IF node.l_type = 0 THEN Leaf(node.l_data)
                     ELSE Lookup(nodes, node.l_data)),
                Some(IF node.r_type = 0 THEN Leaf(node.r_data)
                     ELSE Lookup(nodes, node.r_data)))

RECURSIVE general_loop(_, _, _)
\* the for loop; i counts from 0
general_loop(node_lst, i, nodes) ==
    IF i >= Len(node_lst) THEN [raised |-> "", nodes |-> nodes]
    ELSE IF ~GeneralChildrenBuilt(node_lst[i + 1], nodes)
         THEN [raised |-> "KeyError", nodes |-> nodes]
         ELSE general_loop(node_lst, i + 1,
                           DictSet(nodes, i, GeneralNode(node_lst[i + 1], nodes)))

\* generate_tree_general with nodes a list: a negative root_index counts from the end
generate_tree_general_list(node_lst, root_index) ==
    LET built == general_loop(node_lst, 0, <<>>)
        index == IF root_index < 0 THEN root_index + Len(node_lst) ELSE root_index
    IN  IF built.raised # "" THEN [raised |-> built.raised, tree |-> None]
        ELSE IF ~HasKey(built.nodes, index)
             THEN [raised |-> "KeyError", tree |-> None]
             ELSE [raised |-> "", tree |-> Some(Lookup(built.nodes, index))]

generate_tree_general(node_lst, root_index) ==
    LET built == general_loop(node_lst, 0, <<>>)
    IN  IF built.raised # "" THEN [raised |-> built.raised, tree |-> None]
        ELSE IF ~HasKey(built.nodes, root_index)
             THEN [raised |-> "KeyError", tree |-> None]
             ELSE [raised |-> "", tree |-> Some(Lookup(built.nodes, root_index))]

(***************************************************************************)
(* generate_tree_postorder                                                 *)
(***************************************************************************)
\* the key of the left child of nodes[i]
PostorderLeftKey(node, i) == IF node.r_type = 1 THEN i - 2 ELSE i - 1

\* nodes[i] can be built: the keys of its internal children are in nodes
PostorderChildrenBuilt(node, i, nodes) ==
    /\ node.l_type = 0 \/ HasKey(nodes, PostorderLeftKey(node, i))
    /\ node.r_type = 0 \/ HasKey(nodes, i - 1)

PostorderNode(node, i, nodes) ==
    HuffmanTree(None,
                Some(IF node.l_type = 0 THEN Leaf(node.l_data)
                     ELSE Lookup(nodes, PostorderLeftKey(node, i))),
                Some(IF node.r_type = 0 THEN Leaf(node.r_data)
                     ELSE Lookup(nodes, i - 1)))

RECURSIVE postorder_loop(_, _, _)
\* the for loop; i counts from 0
postorder_loop(node_lst, i, nodes) ==
    IF i >= Len(node_lst) THEN [raised |-> "", nodes |-> nodes]
    ELSE IF ~PostorderChildrenBuilt(node_lst[i + 1], i, nodes)
         THEN [raised |-> "KeyError", nodes |-> nodes]
         ELSE postorder_loop(node_lst, i + 1,
                             DictSet(nodes, i, PostorderNode(node_lst[i + 1], i, nodes)))

generate_tree_postorder(node_lst, root_index) ==
    LET built == postorder_loop(node_lst, 0, <<>>)
    IN  IF built.raised # "" THEN [raised |-> built.raised, tree |-> None]
        ELSE IF ~HasKey(built.nodes, root_index)
             THEN [raised |-> "KeyError", tree |-> None]
             ELSE [raised |-> "", tree |-> Some(Lookup(built.nodes, root_index))]

(***************************************************************************)
(* decompress_bytes                                                        *)
(***************************************************************************)
RECURSIVE AllBits(_)
AllBits(t) == IF t = <<>> THEN <<>> ELSE byte_to_bits(t[1]) \o AllBits(Tail(t))

RECURSIVE walk(_, _, _)
\* the inner while loop; i counts from 0
walk(node, bits, i) ==
    IF is_leaf(node) THEN [raised |-> "", node |-> Some(node), i |-> i]
    ELSE IF i >= Len(bits) THEN [raised |-> "IndexError", node |-> None, i |-> i]
         ELSE walk(IF bits[i + 1] = "0" THEN node.left[1] ELSE node.right[1], bits, i + 1)

RECURSIVE decode_loop_one_more(_, _, _, _, _)
\* the outer while loop with len(result) <= size
decode_loop_one_more(t, bits, i, result, size) ==
    IF i < Len(bits) /\ Len(result) <= size
    THEN LET w == walk(t, bits, i)
         IN  IF w.raised # "" THEN [raised |-> w.raised, result |-> result]
             ELSE decode_loop_one_more(t, bits, w.i,
                                       Append(result, w.node[1].symbol[1]), size)
    ELSE [raised |-> "", result |-> result]

RECURSIVE decode_loop(_, _, _, _, _)
\* the outer while loop
decode_loop(t, bits, i, result, size) ==
    IF i < Len(bits) /\ Len(result) < size
    THEN LET w == walk(t, bits, i)
         IN  IF w.raised # "" THEN [raised |-> w.raised, result |-> result]
             ELSE decode_loop(t, bits, w.i, Append(result, w.node[1].symbol[1]), size)
    ELSE [raised |-> "", result |-> result]

decompress_bytes(t, packed, size) == decode_loop(t, AllBits(packed), 0, <<>>, size)

(***************************************************************************)
(* prep9: BinarySearchTree.  An empty tree has root, left and right None;  *)
(* any other has a root and two subtrees.                                  *)
(***************************************************************************)
\* BinarySearchTree(None)
EmptyBST == [root |-> None, left |-> None, right |-> None]

\* a tree with the given root and subtrees
BinarySearchTree(root, left, right) ==
    [root |-> Some(root), left |-> Some(left), right |-> Some(right)]

is_empty(self) == self.root = None

RECURSIVE count_loop(_, _, _)
\* the while loop of count
count_loop(curr, item, count) ==
    IF is_empty(curr) THEN count
    ELSE IF curr.root[1] >= item
         THEN count_loop(curr.left[1], item,
                         IF curr.root[1] = item THEN count + 1 ELSE count)
         ELSE count_loop(curr.right[1], item,
                         IF curr.root[1] = item THEN count + 1 ELSE count)

bst_count(self, item) == IF is_empty(self) THEN 0 ELSE count_loop(self, item, 0)

RECURSIVE smaller(_, _)
smaller(self, item) ==
    IF is_empty(self) THEN <<>>
    ELSE IF self.root[1] > item THEN smaller(self.left[1], item)
    ELSE IF self.root[1] < item
         THEN LET r1 == <<self.root[1]>>
                  r2 == IF ~is_empty(self.left[1])
                        THEN smaller(self.left[1], item) \o r1 ELSE r1
              IN  IF ~is_empty(self.right[1]) /\ self.right[1].root[1] < item
                  THEN r2 \o smaller(self.right[1], item) ELSE r2
    ELSE <<>>

\* bst.count(arg_item)
Count ==
    /\ pc = "bst"
    /\ returned' = Some(bst_count(bst, arg_item))
    /\ pc' = "count"
    /\ UNCHANGED <<codec, bst, arg_item, simulation>>

\* bst.smaller(arg_item)
Smaller ==
    /\ pc = "bst"
    /\ returned' = Some(smaller(bst, arg_item))
    /\ pc' = "smaller"
    /\ UNCHANGED <<codec, bst, arg_item, simulation>>

(***************************************************************************)
(* The ride simulation: location, rider, driver, monitor, dispatcher and   *)
(* event.  A Rider and a Driver are records kept by id in riders and       *)
(* drivers; lists and events hold the ids.                                 *)
(***************************************************************************)
WAITING == "waiting"
CANCELLED == "cancelled"
SATISFIED == "satisfied"
RIDER == "rider"
DRIVER == "driver"
REQUEST == "request"
CANCEL == "cancel"
PICKUP == "pickup"
DROPOFF == "dropoff"

Location(row, column) == [row |-> row, column |-> column]

Abs(n) == IF n < 0 THEN -n ELSE n

manhattan_distance(origin, destination) ==
    Abs(destination.row - origin.row) + Abs(destination.column - origin.column)

\* round(n / d) of Python 3: to the nearest integer, a half to the even one
round(n, d) ==
    LET q == n \div d
        r == n % d
    IN  IF 2 * r < d THEN q
        ELSE IF 2 * r > d THEN q + 1
        ELSE IF q % 2 = 0 THEN q ELSE q + 1

\* Rider.__init__
Rider(identifier, patience, origin, destination) ==
    [id |-> identifier, patience |-> patience, origin |-> origin,
     destination |-> destination, status |-> WAITING]

\* Driver.__init__
Driver(identifier, location, speed) ==
    [id |-> identifier, location |-> location, is_idle |-> FALSE, speed |-> speed,
     destination |-> None]

get_travel_time(driver, destination) ==
    round(manhattan_distance(driver.location, destination), driver.speed)

\* the driver after start_drive(location); it returns get_travel_time(driver, location)
start_drive(driver, location) ==
    [driver EXCEPT !.destination = Some(location), !.is_idle = FALSE]

\* the driver after start_ride(rider); it returns get_travel_time(driver, rider.destination)
start_ride(driver, rider) == [driver EXCEPT !.destination = Some(rider.destination)]

\* the driver after end_ride()
end_ride(driver) ==
    [driver EXCEPT !.location = driver.destination[1], !.destination = None,
                   !.is_idle = TRUE]

\* Monitor.notify: the activity is appended to the list of the category and the identifier
notify(acts, timestamp, category, description, identifier, location) ==
    [acts EXCEPT ![<<category, identifier>>] =
        Append(@, [time |-> timestamp, description |-> description,
                   id |-> identifier, location |-> location])]

\* list.remove(x): s without the first x
RemoveFirst(s, x) ==
    LET i == CHOOSE i \in 1..Len(s) : s[i] = x /\ \A j \in 1..(i - 1) : s[j] # x
    IN  SubSeq(s, 1, i - 1) \o SubSeq(s, i + 1, Len(s))

IsIn(s, x) == \E i \in 1..Len(s) : s[i] = x

RECURSIVE nearest_driver(_, _, _, _)
\* the for loop of request_driver: the first of the waiting drivers with the least time
nearest_driver(rider, i, min_time, driver) ==
    IF i > Len(waiting_list_driver) THEN driver
    ELSE LET time == get_travel_time(drivers[waiting_list_driver[i]], rider.origin)
         IN  IF min_time = None \/ min_time[1] > time
             THEN nearest_driver(rider, i + 1, Some(time), Some(waiting_list_driver[i]))
             ELSE nearest_driver(rider, i + 1, min_time, driver)

\* what Dispatcher.request_driver(rider) returns: the id of a driver, or None
request_driver_returns(rider) ==
    IF waiting_list_driver # <<>> THEN nearest_driver(rider, 1, None, None) ELSE None

\* what Dispatcher.request_driver(rider) does to the lists
request_driver(rider) ==
    IF waiting_list_driver # <<>>
    THEN /\ waiting_list_driver' = RemoveFirst(waiting_list_driver, request_driver_returns(rider)[1])
         /\ waiting_list_rider' = waiting_list_rider
    ELSE /\ waiting_list_rider' = Append(waiting_list_rider, rider.id)
         /\ waiting_list_driver' = waiting_list_driver

\* pop() for pop(0): the rider who came last
rider_popped_last(waiting) == waiting[Len(waiting)]

\* the rider that pop(0) returns
rider_popped(waiting) == waiting[1]

\* what Dispatcher.request_rider(driver) returns: the id of a rider, or None
request_rider_returns(driver) ==
    IF waiting_list_rider # <<>> THEN Some(rider_popped(waiting_list_rider)) ELSE None

\* what Dispatcher.request_rider(driver) does to the lists
request_rider(driver) ==
    IF waiting_list_rider # <<>>
    THEN /\ waiting_list_rider' = Tail(waiting_list_rider)
         /\ waiting_list_driver' = waiting_list_driver
    ELSE /\ waiting_list_driver' = Append(waiting_list_driver, driver.id)
         /\ waiting_list_rider' = waiting_list_rider

\* the rider list after Dispatcher.cancel_ride(rider)
cancel_ride(waiting, rider) ==
    IF IsIn(waiting, rider.id) THEN RemoveFirst(waiting, rider.id) ELSE waiting

\* dispatcher.request_driver(rider) for any rider
RequestDriver ==
    /\ pc \in {"dispatcher", "request_driver", "request_rider", "cancel_ride"}
    /\ Len(waiting_list_rider) < MaxWaiting
    /\ \E r \in DOMAIN riders :
          /\ returned' = request_driver_returns(riders[r])
          /\ request_driver(riders[r])
    /\ pc' = "request_driver"
    /\ UNCHANGED <<codec, bst, arg_item, events, riders, drivers, activities>>

\* dispatcher.request_rider(driver) for any driver
RequestRider ==
    /\ pc \in {"dispatcher", "request_driver", "request_rider", "cancel_ride"}
    /\ Len(waiting_list_driver) < MaxWaiting
    /\ \E d \in DOMAIN drivers :
          /\ returned' = request_rider_returns(drivers[d])
          /\ request_rider(drivers[d])
    /\ pc' = "request_rider"
    /\ UNCHANGED <<codec, bst, arg_item, events, riders, drivers, activities>>

\* dispatcher.cancel_ride(rider) for any rider
CancelRide ==
    /\ pc \in {"dispatcher", "request_driver", "request_rider", "cancel_ride"}
    /\ \E r \in DOMAIN riders :
          waiting_list_rider' = cancel_ride(waiting_list_rider, riders[r])
    /\ returned' = None
    /\ pc' = "cancel_ride"
    /\ UNCHANGED <<codec, bst, arg_item, events, riders, drivers, waiting_list_driver,
                   activities>>

(***************************************************************************)
(* The events.  An event is a record of its class, its timestamp and the   *)
(* ids of its rider and its driver (None where the class has none).        *)
(***************************************************************************)
RiderRequest(timestamp, rider) ==
    [kind |-> "RiderRequest", timestamp |-> timestamp, rider |-> Some(rider.id),
     driver |-> None]

DriverRequest(timestamp, driver) ==
    [kind |-> "DriverRequest", timestamp |-> timestamp, rider |-> None,
     driver |-> Some(driver.id)]

Cancellation(timestamp, rider) ==
    [kind |-> "Cancellation", timestamp |-> timestamp, rider |-> Some(rider.id),
     driver |-> None]

Pickup(timestamp, rider, driver) ==
    [kind |-> "Pickup", timestamp |-> timestamp, rider |-> Some(rider.id),
     driver |-> Some(driver.id)]

Dropoff(timestamp, rider, driver) ==
    [kind |-> "Dropoff", timestamp |-> timestamp, rider |-> Some(rider.id),
     driver |-> Some(driver.id)]

\* the pending events without the i-th
RemoveAt(s, i) == SubSeq(s, 1, i - 1) \o SubSeq(s, i + 1, Len(s))

\* the i-th pending event may be the next one done: none is older.  Events
\* of one timestamp are done in any order.
Due(i) == \A j \in 1..Len(events) : events[i].timestamp <= events[j].timestamp

\* a Cancellation that cancels whatever the status of the rider
cancellation_applies_always(rider) == TRUE

\* Cancellation.do, line 269: the event cancels only a rider who still waits
cancellation_applies(rider) == rider.status = WAITING

\* RiderRequest.do
RiderRequestDo ==
    /\ pc \in {"simulation", "RiderRequest", "DriverRequest", "Cancellation", "Pickup",
               "Dropoff"}
    /\ \E i \in 1..Len(events) :
          /\ Due(i)
          /\ events[i].kind = "RiderRequest"
          /\ LET self == events[i]
                 rider == riders[self.rider[1]]
                 driver == request_driver_returns(rider)
             IN  /\ activities' = notify(activities, self.timestamp, RIDER, REQUEST,
                                         rider.id, rider.origin)
                 /\ request_driver(rider)
                 /\ IF driver # None
                    THEN LET travel_time == get_travel_time(drivers[driver[1]], rider.origin)
                         IN  /\ drivers' = [drivers EXCEPT
                                               ![driver[1]] = start_drive(@, rider.origin)]
                             /\ events' = RemoveAt(events, i) \o
                                    <<Pickup(self.timestamp + travel_time, rider,
                                             drivers[driver[1]]),
                                      Cancellation(self.timestamp + rider.patience, rider)>>
                    ELSE /\ drivers' = drivers
                         /\ events' = RemoveAt(events, i) \o
                                <<Cancellation(self.timestamp + rider.patience, rider)>>
    /\ pc' = "RiderRequest"
    /\ UNCHANGED <<codec, bst, arg_item, returned, riders>>

\* DriverRequest.do
DriverRequestDo ==
    /\ pc \in {"simulation", "RiderRequest", "DriverRequest", "Cancellation", "Pickup",
               "Dropoff"}
    /\ \E i \in 1..Len(events) :
          /\ Due(i)
          /\ events[i].kind = "DriverRequest"
          /\ LET self == events[i]
                 driver == drivers[self.driver[1]]
                 rider == request_rider_returns(driver)
             IN  /\ activities' = notify(activities, self.timestamp, DRIVER, REQUEST,
                                         driver.id, driver.location)
                 /\ IF rider # None
                    THEN LET travel_time == get_travel_time(driver, riders[rider[1]].origin)
                             late == travel_time > riders[rider[1]].patience
                         IN  /\ IF late
                                THEN /\ waiting_list_rider' =
                                            cancel_ride(Tail(waiting_list_rider),
                                                        riders[rider[1]])
                                     /\ waiting_list_driver' = waiting_list_driver
                                ELSE request_rider(driver)
                             /\ drivers' = [drivers EXCEPT ![driver.id] =
                                    [start_drive(@, riders[rider[1]].origin) EXCEPT
                                        !.is_idle = late]]
                             /\ events' = RemoveAt(events, i) \o
                                    (IF late
                                     THEN <<Cancellation(self.timestamp
                                                           + riders[rider[1]].patience,
                                                         riders[rider[1]])>>
                                     ELSE <<>>) \o
                                    <<Pickup(self.timestamp + travel_time, riders[rider[1]],
                                             driver)>>
                    ELSE /\ request_rider(driver)
                         /\ drivers' = drivers
                         /\ events' = RemoveAt(events, i)
    /\ pc' = "DriverRequest"
    /\ UNCHANGED <<codec, bst, arg_item, returned, riders>>

\* Cancellation.do
CancellationDo ==
    /\ pc \in {"simulation", "RiderRequest", "DriverRequest", "Cancellation", "Pickup",
               "Dropoff"}
    /\ \E i \in 1..Len(events) :
          /\ Due(i)
          /\ events[i].kind = "Cancellation"
          /\ LET self == events[i]
                 rider == riders[self.rider[1]]
             IN  /\ IF cancellation_applies(rider)
                    THEN /\ riders' = [riders EXCEPT ![rider.id].status = CANCELLED]
                         /\ activities' = notify(activities, self.timestamp, RIDER, CANCEL,
                                                 rider.id, rider.origin)
                    ELSE UNCHANGED <<riders, activities>>
                 /\ events' = RemoveAt(events, i)
    /\ pc' = "Cancellation"
    /\ UNCHANGED <<codec, bst, arg_item, returned, drivers, waiting_list_rider,
                   waiting_list_driver>>

\* Pickup.do
PickupDo ==
    /\ pc \in {"simulation", "RiderRequest", "DriverRequest", "Cancellation", "Pickup",
               "Dropoff"}
    /\ \E i \in 1..Len(events) :
          /\ Due(i)
          /\ events[i].kind = "Pickup"
          /\ LET self == events[i]
                 rider == riders[self.rider[1]]
                 driver == drivers[self.driver[1]]
             IN  IF rider.status = WAITING
                 THEN LET arrived == [driver EXCEPT
                                         !.location = rider.origin,
                                         !.destination = Some(rider.destination)]
                          travel_time == get_travel_time(arrived, rider.destination)
                      IN  /\ riders' = [riders EXCEPT ![rider.id].status = SATISFIED]
                          /\ drivers' = [drivers EXCEPT
                                            ![driver.id] = start_ride(arrived, rider)]
                          /\ activities' =
                                notify(notify(activities, self.timestamp, DRIVER, PICKUP,
                                              driver.id, arrived.location),
                                       self.timestamp, RIDER, PICKUP, rider.id, rider.origin)
                          /\ events' = RemoveAt(events, i) \o
                                 <<Dropoff(self.timestamp + travel_time, rider, driver)>>
                 ELSE IF rider.status = CANCELLED
                 THEN /\ riders' = riders
                      /\ drivers' = [drivers EXCEPT
                                        ![driver.id] = [@ EXCEPT !.location = rider.origin,
                                                                 !.destination = None]]
                      /\ activities' = notify(activities, self.timestamp, DRIVER, CANCEL,
                                              driver.id, rider.origin)
                      /\ events' = RemoveAt(events, i) \o
                             <<DriverRequest(self.timestamp, driver)>>
                 ELSE /\ events' = RemoveAt(events, i)
                      /\ UNCHANGED <<riders, drivers, activities>>
    /\ pc' = "Pickup"
    /\ UNCHANGED <<codec, bst, arg_item, returned, waiting_list_rider, waiting_list_driver>>

\* Dropoff.do
DropoffDo ==
    /\ pc \in {"simulation", "RiderRequest", "DriverRequest", "Cancellation", "Pickup",
               "Dropoff"}
    /\ \E i \in 1..Len(events) :
          /\ Due(i)
          /\ events[i].kind = "Dropoff"
          /\ LET self == events[i]
                 rider == riders[self.rider[1]]
                 driver == drivers[self.driver[1]]
                 stopped == end_ride([driver EXCEPT !.location = rider.destination])
             IN  /\ drivers' = [drivers EXCEPT ![driver.id] = stopped]
                 /\ activities' =
                       notify(notify(activities, self.timestamp, DRIVER, DROPOFF,
                                     driver.id, stopped.location),
                              self.timestamp, RIDER, DROPOFF, rider.id, rider.destination)
                 /\ events' = RemoveAt(events, i) \o
                        <<DriverRequest(self.timestamp, driver)>>
    /\ pc' = "Dropoff"
    /\ UNCHANGED <<codec, bst, arg_item, returned, riders, waiting_list_rider,
                   waiting_list_driver>>

(***************************************************************************)
(* compress_file and decompress_file, one action for each call they make   *)
(* (build_huffman_tree: one for the sort, one for each iteration of its    *)
(* loop, one for its return).                                              *)
(***************************************************************************)
BuildFrequencyDict ==
    /\ pc = "start"
    /\ freq' = build_frequency_dict(text)
    /\ pc' = "freq"
    /\ UNCHANGED <<text, data, iters, tree, codes, given, avg, artifact, restored, out, args, others>>

SortItems ==
    /\ pc = "freq"
    /\ data' = SortedItems(freq)
    /\ iters' = IF Len(freq) = 0 THEN 0 ELSE Len(freq) - 1
    /\ pc' = "merging"
    /\ UNCHANGED <<text, freq, tree, codes, given, avg, artifact, restored, out, args, others>>

MergeStep ==
    /\ pc = "merging"
    /\ iters > 0
    /\ data' = MergeInto(data)
    /\ iters' = iters - 1
    /\ UNCHANGED <<pc, text, freq, tree, codes, given, avg, artifact, restored, out, args, others>>

ReturnTree ==
    /\ pc = "merging"
    /\ iters = 0
    /\ IF data = <<>>
       THEN pc' = "IndexError in build_huffman_tree" /\ tree' = tree
       ELSE /\ pc' = "built"
            /\ tree' = IF IsInt(data[1][1])
                       THEN Some(SingleSymbolTree(data[1][1][2]))
                       ELSE Some(data[1][1][2])
    /\ UNCHANGED <<text, freq, data, iters, codes, given, avg, artifact, restored, out, args, others>>

GetCodes ==
    /\ pc = "built"
    /\ codes' = get_codes(tree[1])
    /\ pc' = "coded"
    /\ UNCHANGED <<text, freq, data, iters, tree, given, avg, artifact, restored, out, args, others>>

NumberNodes ==
    /\ pc = "coded"
    /\ tree' = Some(number_nodes(tree[1]))
    /\ pc' = "numbered"
    /\ UNCHANGED <<text, freq, data, iters, codes, given, avg, artifact, restored, out, args, others>>

AvgLength ==
    /\ pc = "numbered"
    /\ IF avg_length_raises(tree[1], freq)
       THEN pc' = "KeyError in avg_length" /\ avg' = avg
       ELSE /\ pc' = "reported"
            /\ avg' = <<avg_length_helper(tree[1], freq, 0), SumValues(freq)>>
    /\ UNCHANGED <<text, freq, data, iters, tree, codes, given, artifact, restored, out, args, others>>

CompressBytes ==
    /\ pc = "reported"
    /\ artifact' = num_nodes_to_bytes(tree[1]) \o tree_to_bytes(tree[1])
                       \o int32_to_bytes(Len(text)) \o compress_bytes(text, codes)
    /\ pc' = "compressed"
    /\ UNCHANGED <<text, freq, data, iters, tree, codes, given, avg, restored, out, args, others>>

\* decompress_file: f.read(1)[0], f.read(num_nodes * 4), f.read(4), f.read()
NumNodesRead == artifact[1]

NodesRead == bytes_to_nodes(SubSeq(artifact, 2, 1 + 4 * NumNodesRead))

SizeRead == bytes_to_int(SubSeq(artifact, 2 + 4 * NumNodesRead, 5 + 4 * NumNodesRead))

PackedRead == SubSeq(artifact, 6 + 4 * NumNodesRead, Len(artifact))

GenerateTree ==
    /\ pc = "compressed"
    /\ LET g == generate_tree_general(NodesRead, NumNodesRead - 1)
       IN  IF g.raised # ""
           THEN pc' = "KeyError in generate_tree_general" /\ restored' = restored
           ELSE pc' = "restored" /\ restored' = g.tree
    /\ UNCHANGED <<text, freq, data, iters, tree, codes, given, avg, artifact, out, args, others>>

DecompressBytes ==
    /\ pc = "restored"
    /\ LET r == decompress_bytes(restored[1], PackedRead, SizeRead)
       IN  IF r.raised # ""
           THEN pc' = "IndexError in decompress_bytes" /\ out' = out
           ELSE pc' = "decompressed" /\ out' = r.result
    /\ UNCHANGED <<text, freq, data, iters, tree, codes, given, avg, artifact, restored, args, others>>

\* improve_tree(tree, freq_dict), for a freq_dict that has every symbol
ImproveTree ==
    /\ pc = "built"
    /\ \E cs \in [1..Len(AlphabetSeq) -> 1..MaxCount] :
          LET f == [i \in 1..Len(AlphabetSeq) |-> <<AlphabetSeq[i], cs[i]>>]
          IN  /\ freq' = f
              /\ tree' = Some(improve_tree(tree[1], f))
    /\ pc' = "improved"
    /\ UNCHANGED <<text, data, iters, codes, given, avg, artifact, restored, out, args, others>>

(***************************************************************************)
(* compress_bytes and decompress_bytes called on their own                 *)
(***************************************************************************)
\* compress_bytes(text, codes)
CompressText ==
    /\ pc = "coded"
    /\ arg_packed' = compress_bytes(text, codes)
    /\ pc' = "packed"
    /\ UNCHANGED <<text, freq, data, iters, tree, codes, given, avg, artifact, restored, out,
                   arg_size, tree_bytes, arg_node_lst, arg_root_index, others>>

\* decompress_bytes(tree, arg_packed, arg_size)
Decompressed ==
    LET r == decompress_bytes(tree[1], arg_packed, arg_size)
    IN  IF r.raised # ""
        THEN pc' = "IndexError in decompress_bytes" /\ out' = out
        ELSE pc' = "decompressed" /\ out' = r.result

\* decompress_bytes(tree, compress_bytes(text, get_codes(tree)), len(text))
DecompressPacked ==
    /\ pc = "packed"
    /\ arg_size = Len(text)
    /\ Decompressed
    /\ UNCHANGED <<text, freq, data, iters, tree, codes, given, avg, artifact, restored, args, others>>

\* decompress_bytes(tree, text, size) for any bytes and any size
DecompressGiven ==
    /\ pc = "args"
    /\ Decompressed
    /\ UNCHANGED <<text, freq, data, iters, tree, codes, given, avg, artifact, restored, args, others>>

(***************************************************************************)
(* tree_to_bytes and the two generate_tree functions called on their own   *)
(***************************************************************************)
\* tree_to_bytes(tree)
TreeToBytes ==
    /\ pc = "numbered"
    /\ tree_bytes' = tree_to_bytes(tree[1])
    /\ pc' = "serialized"
    /\ UNCHANGED <<text, freq, data, iters, tree, codes, given, avg, artifact, restored, out,
                   arg_packed, arg_size, arg_node_lst, arg_root_index, others>>

\* bytes_to_nodes(tree_bytes), with the root in the last record
ReadNodes ==
    /\ pc = "serialized"
    /\ arg_node_lst' = bytes_to_nodes(tree_bytes)
    /\ arg_root_index' = Len(arg_node_lst') - 1
    /\ pc' = "nodes"
    /\ UNCHANGED <<text, freq, data, iters, tree, codes, given, avg, artifact, restored, out,
                   arg_packed, arg_size, tree_bytes, others>>

\* generate_tree_general(arg_node_lst, arg_root_index)
GenerateGeneral ==
    /\ pc = "nodes"
    /\ LET g == generate_tree_general(arg_node_lst, arg_root_index)
       IN  IF g.raised # ""
           THEN pc' = "KeyError in generate_tree_general" /\ restored' = restored
           ELSE pc' = "general" /\ restored' = g.tree
    /\ UNCHANGED <<text, freq, data, iters, tree, codes, given, avg, artifact, out, args, others>>

\* generate_tree_postorder(arg_node_lst, arg_root_index)
GeneratePostorder ==
    /\ pc = "nodes"
    /\ LET g == generate_tree_postorder(arg_node_lst, arg_root_index)
       IN  IF g.raised # ""
           THEN pc' = "KeyError in generate_tree_postorder" /\ restored' = restored
           ELSE pc' = "postorder" /\ restored' = g.tree
    /\ UNCHANGED <<text, freq, data, iters, tree, codes, given, avg, artifact, out, args, others>>

\* compress_file, lines 321 and 322: the count of the nodes and the tree
WriteTree ==
    /\ pc = "numbered"
    /\ artifact' = num_nodes_to_bytes(tree[1]) \o tree_to_bytes(tree[1])
    /\ pc' = "tree written"
    /\ UNCHANGED <<text, freq, data, iters, tree, codes, given, avg, restored, out, args, others>>

(***************************************************************************)
(* The inputs                                                              *)
(***************************************************************************)
RECURSIVE SeqsOver(_, _)
\* the sequences of n elements of S
SeqsOver(S, n) ==
    IF n = 0 THEN {<<>>}
    ELSE {Append(s, x) : s \in SeqsOver(S, n - 1), x \in S}

Distinct(s) == \A i, j \in 1..Len(s) : i # j => s[i] # s[j]

\* the frequency tables of n symbols of S, in every insertion order
Tables(S, n) ==
    {[i \in 1..n |-> <<ks[i], cs[i]>>] :
        ks \in {s \in SeqsOver(S, n) : Distinct(s)},
        cs \in SeqsOver(1..MaxCount, n)}

RECURSIVE TreesOfSeq(_)
\* the trees of every shape whose leaves are, from left to right, those of s
TreesOfSeq(s) ==
    IF Len(s) = 1 THEN {Leaf(s[1])}
    ELSE UNION {{Node(l, r) : l \in TreesOfSeq(SubSeq(s, 1, k)),
                              r \in TreesOfSeq(SubSeq(s, k + 1, Len(s)))} :
                k \in 1..(Len(s) - 1)}

\* Leaves drawn directly: distinct symbols, or any symbols of a pair.
LeafRows(n) ==
    {s \in SeqsOver(Alphabet, n) : Distinct(s) \/ \A i \in 1..n : s[i] \in RepeatedSymbols}

InputTrees == UNION {TreesOfSeq(s) : s \in UNION {LeafRows(n) : n \in 1..MaxLeaves}}

OthersIdle ==
    /\ bst = None
    /\ arg_item = 0
    /\ returned = None
    /\ events = <<>>
    /\ riders = <<>>
    /\ drivers = <<>>
    /\ waiting_list_rider = <<>>
    /\ waiting_list_driver = <<>>
    /\ activities = <<>>

Idle ==
    /\ OthersIdle
    /\ data = <<>>
    /\ iters = 0
    /\ codes = <<>>
    /\ avg = None
    /\ artifact = <<>>
    /\ restored = None
    /\ out = <<>>
    /\ arg_packed = <<>>
    /\ arg_size = 0
    /\ tree_bytes = <<>>
    /\ arg_node_lst = <<>>
    /\ arg_root_index = 0

\* compress_file then decompress_file on a text
Init ==
    /\ pc = "start"
    /\ text \in UNION {SeqsOver(Alphabet, n) : n \in 0..MaxLen}
    /\ freq = <<>>
    /\ tree = None
    /\ given = None
    /\ Idle

Next ==
    \/ BuildFrequencyDict
    \/ SortItems
    \/ MergeStep
    \/ ReturnTree
    \/ GetCodes
    \/ NumberNodes
    \/ AvgLength
    \/ CompressBytes
    \/ GenerateTree
    \/ DecompressBytes

Spec == Init /\ [][Next]_vars

\* the tables of the doctests of build_frequency_dict and build_huffman_tree
DoctestTables ==
    {<<(<<65, 1>>), (<<66, 2>>), (<<67, 1>>)>>,
     <<(<<2, 6>>), (<<3, 4>>)>>,
     <<(<<2, 6>>), (<<3, 4>>), (<<7, 5>>)>>}

\* build_huffman_tree and get_codes on a frequency table
InitTable ==
    /\ pc = "freq"
    /\ text = <<>>
    /\ freq \in Tables(Byte, 1) \cup UNION {Tables(Alphabet, n) : n \in 2..MaxKeys}
                  \cup DoctestTables
    /\ tree = None
    /\ given = None
    /\ Idle

NextTable == SortItems \/ MergeStep \/ ReturnTree \/ GetCodes

SpecTable == InitTable /\ [][NextTable]_vars

\* get_codes, number_nodes and improve_tree on a tree of any shape
InitTree ==
    /\ pc = "built"
    /\ text = <<>>
    /\ freq = <<>>
    /\ given \in {Some(t) : t \in InputTrees}
    /\ tree = given
    /\ Idle

NextTree == GetCodes \/ NumberNodes \/ ImproveTree

SpecTree == InitTree /\ [][NextTree]_vars

\* the tree and the texts of the doctests of compress_bytes
DoctestCodesTree == Node(Leaf(0), Node(Leaf(1), Leaf(2)))

DoctestTexts == {<<1, 2, 1, 0>>, <<1, 2, 1, 0, 2>>}

\* the trees drawn directly whose leaves hold distinct symbols
DistinctTrees ==
    UNION {TreesOfSeq(s) :
              s \in UNION {{r \in SeqsOver(Alphabet, n) : Distinct(r)} : n \in 1..MaxLeaves}}

TextsOver(S, n) == UNION {SeqsOver(S, k) : k \in 0..n}

\* compress_bytes then decompress_bytes on a tree and a text of its symbols
InitBits ==
    /\ pc = "built"
    /\ freq = <<>>
    /\ \/ /\ given \in {Some(t) : t \in DistinctTrees}
          /\ text \in TextsOver({q \in Alphabet : HasKey(get_codes(given[1]), q)}, MaxText)
       \/ /\ given = Some(DoctestCodesTree)
          /\ text \in DoctestTexts
    /\ tree = given
    /\ data = <<>>
    /\ iters = 0
    /\ codes = <<>>
    /\ avg = None
    /\ artifact = <<>>
    /\ restored = None
    /\ out = <<>>
    /\ arg_packed = <<>>
    /\ arg_size = Len(text)
    /\ tree_bytes = <<>>
    /\ arg_node_lst = <<>>
    /\ arg_root_index = 0
    /\ OthersIdle

NextBits == GetCodes \/ CompressText \/ DecompressPacked

SpecBits == InitBits /\ [][NextBits]_vars

\* the trees drawn directly, and the larger ones with leaves of a pair of symbols
SerialTrees ==
    InputTrees \cup UNION {TreesOfSeq(s) :
                              s \in UNION {SeqsOver(RepeatedSymbols, n) : n \in 1..MaxSerialLeaves}}

\* number_nodes, tree_to_bytes, bytes_to_nodes and a generate_tree function on a tree
InitSerial ==
    /\ pc = "built"
    /\ text = <<>>
    /\ freq = <<>>
    /\ given \in {Some(t) : t \in SerialTrees}
    /\ tree = given
    /\ Idle

NextSerial ==
    \/ GetCodes
    \/ NumberNodes
    \/ TreeToBytes
    \/ ReadNodes
    \/ GenerateGeneral
    \/ GeneratePostorder

SpecSerial == InitSerial /\ [][NextSerial]_vars

\* a child of a record in a list of n: a leaf, or a reference to a record or past the last one
ChildChoices(n) == {<<0, 0>>} \cup {<<1, j>> : j \in 0..n}

\* the record lists of n records; the leaves hold 0, 1, 2, ... from the first record on
NodeListsOf(n) ==
    {[i \in 1..n |->
         ReadNode(c[i][1][1], IF c[i][1][1] = 0 THEN 2 * (i - 1) ELSE c[i][1][2],
                  c[i][2][1], IF c[i][2][1] = 0 THEN 2 * (i - 1) + 1 ELSE c[i][2][2])] :
     c \in [1..n -> ChildChoices(n) \X ChildChoices(n)]}

\* a generate_tree function on any list of records and any root index
InitNodes ==
    /\ pc = "nodes"
    /\ text = <<>>
    /\ freq = <<>>
    /\ tree = None
    /\ given = None
    /\ data = <<>>
    /\ iters = 0
    /\ codes = <<>>
    /\ avg = None
    /\ artifact = <<>>
    /\ restored = None
    /\ out = <<>>
    /\ arg_packed = <<>>
    /\ arg_size = 0
    /\ tree_bytes = <<>>
    /\ arg_node_lst \in UNION {NodeListsOf(n) : n \in 0..MaxNodes}
    /\ arg_root_index \in (-1)..Len(arg_node_lst)
    /\ OthersIdle

NextNodes == GenerateGeneral \/ GeneratePostorder

SpecNodes == InitNodes /\ [][NextNodes]_vars

\* the table of a text that holds every byte below MaxTableKeys once
LargeTable == [i \in 1..MaxTableKeys |-> <<i - 1, 1>>]

\* build_huffman_tree, number_nodes and the first bytes of the artifact on a table
InitCount ==
    /\ pc = "freq"
    /\ text = <<>>
    /\ freq \in Tables(Byte, 1) \cup UNION {Tables(Alphabet, n) : n \in 2..MaxKeys}
                  \cup {LargeTable}
    /\ tree = None
    /\ given = None
    /\ Idle

NextCount == SortItems \/ MergeStep \/ ReturnTree \/ GetCodes \/ NumberNodes \/ WriteTree

SpecCount == InitCount /\ [][NextCount]_vars

RECURSIVE BSTs(_, _, _)
\* the trees of n items lo..hi that keep the BST property: the items on the
\* left of a root are no larger, those on its right no smaller
BSTs(n, lo, hi) ==
    IF n = 0 THEN {EmptyBST}
    ELSE UNION {UNION {{BinarySearchTree(v, l, r) : l \in BSTs(k, lo, v),
                                                   r \in BSTs(n - 1 - k, v, hi)} :
                       k \in 0..(n - 1)} :
                v \in lo..hi}

CodecIdle ==
    /\ text = <<>>
    /\ freq = <<>>
    /\ tree = None
    /\ given = None
    /\ data = <<>>
    /\ iters = 0
    /\ codes = <<>>
    /\ avg = None
    /\ artifact = <<>>
    /\ restored = None
    /\ out = <<>>
    /\ arg_packed = <<>>
    /\ arg_size = 0
    /\ tree_bytes = <<>>
    /\ arg_node_lst = <<>>
    /\ arg_root_index = 0

\* count or smaller on a BinarySearchTree and an item
InitBST ==
    /\ pc = "bst"
    /\ CodecIdle
    /\ bst \in UNION {BSTs(n, 1, MaxItem) : n \in 0..MaxBSTNodes}
    /\ arg_item \in 0..(MaxItem + 1)
    /\ returned = None
    /\ events = <<>>
    /\ riders = <<>>
    /\ drivers = <<>>
    /\ waiting_list_rider = <<>>
    /\ waiting_list_driver = <<>>
    /\ activities = <<>>

NextBST == Count \/ Smaller

SpecBST == InitBST /\ [][NextBST]_vars

RiderIds == {"r1", "r2"}

DriverIds == {"d1", "d2"}

\* where the riders wait and the drivers start
Locations == {Location(0, 0), Location(1, 2)}

\* where every rider goes
Destination == Location(0, 0)

Speeds == {1, 2}

\* Monitor.__init__, with the empty list of every identifier
NoActivities ==
    [k \in ({RIDER} \X RiderIds) \cup ({DRIVER} \X DriverIds) |-> <<>>]

\* any calls of a Dispatcher, for riders and drivers that differ in place and speed
InitDispatcher ==
    /\ pc = "dispatcher"
    /\ CodecIdle
    /\ bst = None
    /\ arg_item = 0
    /\ returned = None
    /\ events = <<>>
    /\ \E o \in [RiderIds -> Locations] :
          riders = [r \in RiderIds |-> Rider(r, 1, o[r], Destination)]
    /\ \E l \in [DriverIds -> Locations] : \E v \in [DriverIds -> Speeds] :
          drivers = [d \in DriverIds |-> Driver(d, l[d], v[d])]
    /\ waiting_list_rider = <<>>
    /\ waiting_list_driver = <<>>
    /\ activities = NoActivities

NextDispatcher == RequestDriver \/ RequestRider \/ CancelRide

SpecDispatcher == InitDispatcher /\ [][NextDispatcher]_vars

\* the events of a file: each rider asks at some time with some patience from
\* some place; d1 asks at 0 from the destination, d2 at some time from anywhere
InitSimulation ==
    /\ pc = "simulation"
    /\ CodecIdle
    /\ bst = None
    /\ arg_item = 0
    /\ returned = None
    /\ \E o \in [RiderIds -> Locations] : \E p \in [RiderIds -> 1..MaxPatience] :
          riders = [r \in RiderIds |-> Rider(r, p[r], o[r], Destination)]
    /\ \E l \in Locations : \E v \in Speeds :
          drivers = [d \in DriverIds |->
                        IF d = "d1" THEN Driver(d, Destination, 1) ELSE Driver(d, l, v)]
    /\ \E t \in [RiderIds -> 0..MaxTime] : \E u \in 0..MaxTime :
          events = <<RiderRequest(t["r1"], riders["r1"]),
                     RiderRequest(t["r2"], riders["r2"]),
                     DriverRequest(0, drivers["d1"]),
                     DriverRequest(u, drivers["d2"])>>
    /\ waiting_list_rider = <<>>
    /\ waiting_list_driver = <<>>
    /\ activities = NoActivities

\* the loop of the simulation: the oldest pending event is done
NextSimulation ==
    \/ RiderRequestDo
    \/ DriverRequestDo
    \/ CancellationDo
    \/ PickupDo
    \/ DropoffDo

SpecSimulation == InitSimulation /\ [][NextSimulation]_vars

\* bytes with every bit clear, every bit set, and the byte of the doctest
SampleBytes == {0, 184, 255}

\* decompress_bytes on a tree, any bytes and any size
InitDecode ==
    /\ pc = "args"
    /\ text = <<>>
    /\ freq = <<>>
    /\ given \in {Some(t) : t \in DistinctTrees}
    /\ tree = given
    /\ data = <<>>
    /\ iters = 0
    /\ codes = <<>>
    /\ avg = None
    /\ artifact = <<>>
    /\ restored = None
    /\ out = <<>>
    /\ arg_packed \in TextsOver(SampleBytes, MaxPacked)
    /\ arg_size \in 0..MaxSize
    /\ tree_bytes = <<>>
    /\ arg_node_lst = <<>>
    /\ arg_root_index = 0
    /\ OthersIdle

NextDecode == DecompressGiven

SpecDecode == InitDecode /\ [][NextDecode]_vars

(***************************************************************************)
(* What the claims speak of                                                *)
(***************************************************************************)
Raised ==
    pc \in {"IndexError in build_huffman_tree", "KeyError in avg_length",
            "KeyError in generate_tree_general", "IndexError in decompress_bytes"}

IsPrefix(a, b) == Len(a) <= Len(b) /\ SubSeq(b, 1, Len(a)) = a

RECURSIVE LeafDepths(_, _)
\* <<symbol, depth>> of every leaf, from left to right
LeafDepths(t, c) ==
    IF is_leaf(t) THEN <<(<<t.symbol[1], c>>)>>
    ELSE LeafDepths(t.left[1], c + 1) \o LeafDepths(t.right[1], c + 1)

RECURSIVE SumSeq(_)
SumSeq(s) == IF s = <<>> THEN 0 ELSE s[1] + SumSeq(Tail(s))

\* the sum over the leaves of f[symbol] * depth
WeightedLength(t, f) ==
    LET ld == LeafDepths(t, 0)
    IN  SumSeq([i \in 1..Len(ld) |-> Lookup(f, ld[i][1]) * ld[i][2]])

Occurrences(s, x) == Cardinality({i \in 1..Len(s) : s[i] = x})

LeafSymbols(t) == LET ld == LeafDepths(t, 0) IN [i \in 1..Len(ld) |-> ld[i][1]]

RECURSIVE Follow(_, _)
\* where the path leads from t: <<node>>, or <<>> when it leaves the tree
Follow(t, path) ==
    IF path = <<>> THEN Some(t)
    ELSE IF is_leaf(t) THEN None
         ELSE Follow(IF path[1] = "0" THEN t.left[1] ELSE t.right[1], Tail(path))

RECURSIVE InternalNumbers(_)
\* the number fields of the internal nodes, in postorder
InternalNumbers(t) ==
    IF is_leaf(t) THEN <<>>
    ELSE InternalNumbers(t.left[1]) \o InternalNumbers(t.right[1]) \o <<t.number>>

NumberSet(t) ==
    LET ns == InternalNumbers(t) IN {ns[i][1] : i \in {j \in 1..Len(ns) : ns[j] # None}}

RECURSIVE PostorderNumbered(_)
\* every internal node is numbered above its subtrees, the left one below the right one
PostorderNumbered(t) ==
    \/ is_leaf(t)
    \/ /\ t.number # None
       /\ \A n \in NumberSet(t.left[1]) \cup NumberSet(t.right[1]) : n < t.number[1]
       /\ \A a \in NumberSet(t.left[1]) : \A b \in NumberSet(t.right[1]) : a < b
       /\ PostorderNumbered(t.left[1])
       /\ PostorderNumbered(t.right[1])

RECURSIVE SameShape(_, _)
\* a and b differ in the symbols of their leaves at most
SameShape(a, b) ==
    IF is_leaf(a) \/ is_leaf(b)
    THEN /\ is_leaf(a) /\ is_leaf(b)
         /\ a.symbol # None /\ b.symbol # None
         /\ a.number = b.number
    ELSE /\ a.symbol = b.symbol
         /\ a.number = b.number
         /\ SameShape(a.left[1], b.left[1])
         /\ SameShape(a.right[1], b.right[1])

\* every full binary tree whose leaves are the symbols of S, each on one leaf
TreesOver(S) ==
    UNION {TreesOfSeq(s) : s \in {q \in SeqsOver(S, Cardinality(S)) : Distinct(q)}}

(***************************************************************************)
(* The claims                                                              *)
(***************************************************************************)
\* C1: for every non-empty text, compress_file followed by decompress_file
\* raises nothing and writes exactly the text.
C1_RoundTrip ==
    text # <<>> => /\ ~Raised
                   /\ pc = "decompressed" => out = text

\* C2: the codes get_codes returns for a tree of build_huffman_tree are
\* prefix-free: no code of a symbol is a prefix of the code of another one.
C2_PrefixFree ==
    pc = "coded" =>
        \A i, j \in 1..Len(codes) : i # j => ~IsPrefix(codes[i][2], codes[j][2])

C2_Witness ==
    /\ pc = "coded"
    /\ Len(freq) = 3
    /\ \E i, j \in 1..Len(codes) : Len(codes[i][2]) < Len(codes[j][2])

\* C3: for a tree with distinct leaf symbols get_codes has exactly one entry
\* for each leaf symbol, and the code of a symbol is the path from the root to
\* its leaf, '0' for left and '1' for right, so its length is the leaf's depth.
C3_CodesArePaths ==
    (pc = "coded" /\ Distinct(LeafSymbols(given[1]))) =>
        /\ Len(codes) = Len(LeafSymbols(given[1]))
        /\ Keys(codes) = {LeafSymbols(given[1])[i] : i \in 1..Len(LeafSymbols(given[1]))}
        /\ \A i \in 1..Len(codes) :
              LET leaf == Follow(given[1], codes[i][2])
              IN  /\ leaf # None
                  /\ is_leaf(leaf[1])
                  /\ leaf[1].symbol = Some(codes[i][1])
        /\ \A i \in 1..Len(LeafDepths(given[1], 0)) :
              Len(Lookup(codes, LeafDepths(given[1], 0)[i][1])) = LeafDepths(given[1], 0)[i][2]

C3_Witness ==
    /\ pc = "coded"
    /\ given # None
    /\ Len(codes) = 4
    /\ \E i, j \in 1..Len(codes) : Len(codes[i][2]) = 1 /\ Len(codes[j][2]) = 3

\* C4: the keys of build_frequency_dict(text) are the bytes that occur in
\* text, each mapped to the number of its occurrences, so the values sum to
\* len(text).
C4_FrequencyDict ==
    pc = "freq" =>
        /\ Keys(freq) = {text[i] : i \in 1..Len(text)}
        /\ Len(freq) = Cardinality(Keys(freq))
        /\ \A k \in Keys(freq) : Lookup(freq, k) = Occurrences(text, k)
        /\ SumValues(freq) = Len(text)

C4_Witness ==
    /\ pc = "freq"
    /\ Len(freq) = 2
    /\ \E k \in Keys(freq) : Lookup(freq, k) = 3

\* C5: after number_nodes on a tree with k internal nodes the numbers of the
\* internal nodes are exactly 0..k-1, each used once, in postorder: a node's
\* number is above those of its subtrees, the left subtree's below the right's.
C5_PostorderNumbers ==
    pc = "numbered" =>
        LET ns == InternalNumbers(tree[1])
        IN  /\ \A i \in 1..Len(ns) : ns[i] # None
            /\ NumberSet(tree[1]) = 0..(Len(ns) - 1)
            /\ PostorderNumbered(tree[1])

C5_Witness ==
    /\ pc = "numbered"
    /\ given # None
    /\ ~is_leaf(tree[1])
    /\ ~is_leaf(tree[1].left[1])
    /\ ~is_leaf(tree[1].right[1])
    /\ tree[1].number = Some(2)

\* C6: the weighted code length after improve_tree(T, f) is at most the one
\* before the call, for a tree of any shape.
C6_NotWorse ==
    pc = "improved" => WeightedLength(tree[1], freq) <= WeightedLength(given[1], freq)

\* C7: after improve_tree(T, f) a leaf strictly closer to the root than
\* another one holds a symbol that is at least as frequent.
C7_ShallowIsFrequent ==
    pc = "improved" =>
        LET ld == LeafDepths(tree[1], 0)
        IN  \A x, y \in 1..Len(ld) :
                ld[x][2] < ld[y][2] => Lookup(freq, ld[x][1]) >= Lookup(freq, ld[y][1])

\* C8: improve_tree changes the symbols of the leaves only: the shape is the
\* same, no internal node has a symbol, and the leaf symbols are the same
\* multiset as before.
C8_LeavesOnly ==
    pc = "improved" =>
        /\ SameShape(tree[1], given[1])
        /\ \A x \in Alphabet :
              Occurrences(LeafSymbols(tree[1]), x) = Occurrences(LeafSymbols(given[1]), x)

C8_Witness ==
    /\ pc = "improved"
    /\ tree # given
    /\ \E x \in Alphabet : Occurrences(LeafSymbols(given[1]), x) = 2

\* C9: for a table with the single symbol d the tree of build_huffman_tree
\* is a root with two leaves, the left one d, the right one a byte other
\* than d.
C9_SingleSymbol ==
    (pc = "built" /\ Len(freq) = 1) =>
        LET t == tree[1]
            d == freq[1][1]
        IN  /\ t.symbol = None
            /\ ~is_leaf(t)
            /\ t.left # None /\ is_leaf(t.left[1]) /\ t.left[1].symbol = Some(d)
            /\ t.right # None /\ is_leaf(t.right[1])
            /\ t.right[1].symbol # None
            /\ t.right[1].symbol[1] \in Byte
            /\ t.right[1].symbol[1] # d

C9_Witness ==
    /\ pc = "built"
    /\ Len(freq) = 1
    /\ freq[1][1] = 255

\* C10: for a table with two symbols or more the tree of build_huffman_tree
\* is optimal: no full binary tree over the table's symbols has a smaller
\* weighted path length.
C10_Optimal ==
    (pc = "built" /\ Len(freq) >= 2) =>
        \A t \in TreesOver(Keys(freq)) :
            WeightedLength(tree[1], freq) <= WeightedLength(t, freq)

C10_Witness ==
    /\ pc = "built"
    /\ Len(freq) = 3
    /\ \E t \in TreesOver(Keys(freq)) :
          WeightedLength(tree[1], freq) < WeightedLength(t, freq)
    /\ \E i, j \in 1..Len(freq) : freq[i][2] < freq[j][2]

\* The reference procedure of C11: the leaves in ascending weight, equal
\* weights in the order of the table, as <<tree, weight>>.
RefRank(f, i) ==
    1 + Cardinality({j \in 1..Len(f) :
                        f[j][2] < f[i][2] \/ (f[j][2] = f[i][2] /\ j < i)})

RefSorted(f) ==
    [p \in 1..Len(f) |->
        LET i == CHOOSE i \in 1..Len(f) : RefRank(f, i) = p
        IN  <<Leaf(f[i][1]), f[i][2]>>]

\* e goes after every entry whose weight is less than or equal to its own
RefReinsert(rest, e) ==
    LET notAbove == {j \in 1..Len(rest) : rest[j][2] <= e[2]}
        last == IF notAbove = {} THEN 0 ELSE CHOOSE j \in notAbove : \A q \in notAbove : q <= j
    IN  SubSeq(rest, 1, last) \o <<e>> \o SubSeq(rest, last + 1, Len(rest))

RECURSIVE RefBuild(_)
RefBuild(d) ==
    IF Len(d) = 1 THEN d[1][1]
    ELSE RefBuild(RefReinsert(SubSeq(d, 3, Len(d)),
                              <<Node(d[1][1], d[2][1]), d[1][2] + d[2][2]>>))

\* C11: for a table with two symbols or more build_huffman_tree returns the
\* tree of the reference procedure (ascending weights, ties in table order,
\* first removed on the left, the merged node after its equals); the tables
\* {65:1, 66:2, 67:1} and {2:6, 3:4, 7:5} give the trees the claim names.
C11_ReferenceTree ==
    (pc = "built" /\ Len(freq) >= 2) =>
        /\ tree[1] = RefBuild(RefSorted(freq))
        /\ freq = <<(<<65, 1>>), (<<66, 2>>), (<<67, 1>>)>> =>
              tree[1] = Node(Leaf(66), Node(Leaf(65), Leaf(67)))
        /\ freq = <<(<<2, 6>>), (<<3, 4>>), (<<7, 5>>)>> =>
              tree[1] = Node(Leaf(2), Node(Leaf(3), Leaf(7)))

C11_Witness ==
    /\ pc = "built"
    /\ freq = <<(<<65, 1>>), (<<66, 2>>), (<<67, 1>>)>>
    /\ tree[1] = Node(Leaf(66), Node(Leaf(65), Leaf(67)))

RECURSIVE CodeBits(_, _)
\* the codes of the symbols of t, one after the other
CodeBits(t, cods) ==
    IF t = <<>> THEN <<>> ELSE Lookup(cods, Head(t)) \o CodeBits(Tail(t), cods)

\* bit number k (from 1, the most significant of the first byte) of bytes b
BitOf(b, k) == (b[((k - 1) \div 8) + 1] \div Pow2(7 - ((k - 1) % 8))) % 2

\* C12: compress_bytes returns ceil(total_bits / 8) bytes (none for the
\* empty text) whose bits, the most significant first, are the codes of the
\* text's symbols in order, then zero bits; codes {0:'0', 1:'10', 2:'11'}
\* and text [1, 2, 1, 0] give the byte 10111000.
C12_PackedBits ==
    pc = "packed" =>
        LET bits == CodeBits(text, codes)
        IN  /\ Len(arg_packed) = (Len(bits) + 7) \div 8
            /\ text = <<>> => arg_packed = <<>>
            /\ \A k \in 1..(8 * Len(arg_packed)) :
                  BitOf(arg_packed, k) = IF k <= Len(bits) /\ bits[k] = "1" THEN 1 ELSE 0
            /\ (given = Some(DoctestCodesTree) /\ text = <<1, 2, 1, 0>>) =>
                  arg_packed = <<184>>

C12_Witness ==
    /\ pc = "packed"
    /\ given = Some(DoctestCodesTree)
    /\ text = <<1, 2, 1, 0, 2>>
    /\ arg_packed = <<185, 128>>

\* C13: decompress_bytes never returns more than size symbols, whatever bits
\* are left, and none for size = 0.
C13_AtMostSize ==
    pc = "decompressed" =>
        /\ Len(out) <= arg_size
        /\ arg_size = 0 => out = <<>>

C13_Witness ==
    /\ pc = "decompressed"
    /\ arg_packed = <<255>>
    /\ arg_size = 2
    /\ Len(out) = 2
    /\ ~is_leaf(tree[1])

\* C18: decompress_bytes reports a truncation error whenever the bits run
\* out before size symbols are decoded, in the middle of a code or exactly
\* at the end of one: when it returns, it returns size symbols.
C18_TruncationReported == pc = "decompressed" => Len(out) = arg_size

RECURSIVE InternalNodes(_)
\* the internal nodes of t
InternalNodes(t) ==
    IF is_leaf(t) THEN {} ELSE {t} \cup InternalNodes(t.left[1]) \cup InternalNodes(t.right[1])

\* the four bytes that describe the children of internal node n
RecordOf(n) ==
    LET l == n.left[1]
        r == n.right[1]
    IN  (IF is_leaf(l) THEN <<0, l.symbol[1]>> ELSE <<1, l.number[1]>>)
        \o (IF is_leaf(r) THEN <<0, r.symbol[1]>> ELSE <<1, r.number[1]>>)

\* C14: for a numbered tree with k >= 1 internal nodes, tree_to_bytes returns
\* 4 * k bytes; bytes 4i .. 4i+3 are the record of the internal node numbered
\* i (kind 0 and the symbol for a leaf child, kind 1 and the number for an
\* internal child), and the record of the root is the last one.
C14_Records ==
    (pc = "serialized" /\ ~is_leaf(tree[1])) =>
        LET k == Len(InternalNumbers(given[1]))
        IN  /\ Len(tree_bytes) = 4 * k
            /\ \A n \in InternalNodes(tree[1]) :
                  /\ n.number[1] \in 0..(k - 1)
                  /\ SubSeq(tree_bytes, 4 * n.number[1] + 1, 4 * n.number[1] + 4) = RecordOf(n)
            /\ tree[1].number[1] = k - 1

C14_Witness ==
    /\ pc = "serialized"
    /\ ~is_leaf(tree[1])
    /\ ~is_leaf(tree[1].left[1])
    /\ ~is_leaf(tree[1].right[1])
    /\ SubSeq(tree_bytes, Len(tree_bytes) - 3, Len(tree_bytes)) = RecordOf(tree[1])

\* C15: generate_tree_general, given the records tree_to_bytes wrote for a
\* numbered tree with k internal nodes and the root index k - 1, returns a
\* tree of the same shape with the same symbols on its leaves.
C15_GeneralRestores ==
    (pc \in {"general", "KeyError in generate_tree_general"} /\ ~is_leaf(given[1])) =>
        /\ pc = "general"
        /\ restored = given

C15_Witness ==
    /\ pc = "general"
    /\ ~is_leaf(given[1].left[1])
    /\ ~is_leaf(given[1].right[1])
    /\ restored = given

\* C17: generate_tree_postorder, given the records tree_to_bytes wrote for a
\* numbered tree and the index of the last record, returns a tree of the
\* same shape with the same symbols on its leaves.
C17_PostorderRestores ==
    (pc \in {"postorder", "KeyError in generate_tree_postorder"} /\ ~is_leaf(given[1])) =>
        /\ pc = "postorder"
        /\ restored = given

RECURSIVE Expand(_, _, _)
\* the tree that record i (from 0) of node_lst describes, within depth fuel;
\* <<>> when a reference is no index of the list or the records form a cycle
Expand(node_lst, i, fuel) ==
    IF fuel = 0 \/ i \notin 0..(Len(node_lst) - 1) THEN None
    ELSE LET node == node_lst[i + 1]
             l == IF node.l_type = 0 THEN Some(Leaf(node.l_data))
                  ELSE Expand(node_lst, node.l_data, fuel - 1)
             r == IF node.r_type = 0 THEN Some(Leaf(node.r_data))
                  ELSE Expand(node_lst, node.r_data, fuel - 1)
         IN  IF l = None \/ r = None THEN None ELSE Some(HuffmanTree(None, l, r))

\* every record describes a tree, and root_index is the index of one
DescribesTree(node_lst, root_index) ==
    /\ root_index \in 0..(Len(node_lst) - 1)
    /\ \A i \in 0..(Len(node_lst) - 1) : Expand(node_lst, i, Len(node_lst)) # None

\* C16: generate_tree_general assumes nothing about the order of the
\* records: on every list that describes a tree and every root index in it,
\* also when a record refers to a record at a higher index, it returns the
\* tree rooted at node_lst[root_index].
C16_AnyOrder ==
    (/\ pc \in {"general", "KeyError in generate_tree_general"}
     /\ DescribesTree(arg_node_lst, arg_root_index)) =>
        /\ pc = "general"
        /\ restored = Expand(arg_node_lst, arg_root_index, Len(arg_node_lst))

\* some reference of an internal kind is no index of the list
BadReference(node_lst) ==
    \E i \in 1..Len(node_lst) :
        \/ node_lst[i].l_type # 0 /\ node_lst[i].l_data \notin 0..(Len(node_lst) - 1)
        \/ node_lst[i].r_type # 0 /\ node_lst[i].r_data \notin 0..(Len(node_lst) - 1)

BadRoot(node_lst, root_index) == root_index \notin 0..(Len(node_lst) - 1)

\* C19, as stated: neither generate_tree function returns a tree when a
\* reference of an internal kind is no index of the list or the root index is
\* outside 0 .. len(node_lst) - 1.
C19_Original ==
    (BadReference(arg_node_lst) \/ BadRoot(arg_node_lst, arg_root_index)) =>
        pc \notin {"general", "postorder"}

\* C19, amended: generate_tree_general returns no tree when a reference of
\* an internal kind is no index of the list or the root index is outside
\* 0 .. len(node_lst) - 1 (zero records and root index -1 included);
\* generate_tree_postorder returns no tree when the root index is outside
\* that range, and never reads the reference values.
C19_Amended ==
    /\ (BadReference(arg_node_lst) \/ BadRoot(arg_node_lst, arg_root_index)) => pc # "general"
    /\ BadRoot(arg_node_lst, arg_root_index) => pc # "postorder"

C19_Witness ==
    /\ pc = "KeyError in generate_tree_general"
    /\ Len(arg_node_lst) = 2
    /\ arg_root_index = -1
    /\ ~BadReference(arg_node_lst)
    /\ generate_tree_general(arg_node_lst, 1).raised = ""

\* C20, as stated: the empty text is rejected at frequency analysis, and
\* build_huffman_tree is never entered with an empty frequency table.
C20_Original == pc \notin {"start", "freq"} => freq # <<>>

\* C20, amended: build_frequency_dict rejects nothing: it returns the empty
\* table for the empty text, and for no other; compress_file hands that
\* table to build_huffman_tree, which raises IndexError, on the empty table
\* only, and nothing runs after it.
C20_Amended ==
    /\ pc # "start" => (freq = <<>> <=> text = <<>>)
    /\ text = <<>> => pc \in {"start", "freq", "merging", "IndexError in build_huffman_tree"}
    /\ pc = "IndexError in build_huffman_tree" => text = <<>>

C20_Witness ==
    /\ pc = "IndexError in build_huffman_tree"
    /\ text = <<>>
    /\ freq = <<>>

C22_AvgLength ==
    (pc \in {"reported", "KeyError in avg_length"} /\ freq # <<>>) =>
        /\ pc = "reported"
        /\ avg[1] = WeightedLength(tree[1], freq)
        /\ avg[1] = SumSeq([i \in 1..Len(freq) |-> freq[i][2] * Len(Lookup(codes, freq[i][1]))])
        /\ avg[2] = SumValues(freq)

RECURSIVE IsFullTree(_)
\* every leaf has a symbol and no child; every other node has no symbol and two children
IsFullTree(t) ==
    IF t.left = None /\ t.right = None THEN t.symbol # None
    ELSE /\ t.symbol = None
         /\ t.left # None
         /\ t.right # None
         /\ IsFullTree(t.left[1])
         /\ IsFullTree(t.right[1])

\* C25: for a table of n >= 2 symbols the tree of build_huffman_tree is a full
\* binary tree with n leaves and n - 1 internal nodes, and its leaves hold
\* the keys of the table, each on one leaf.
C25_FullTree ==
    (pc = "built" /\ Len(freq) >= 2) =>
        /\ IsFullTree(tree[1])
        /\ Len(LeafSymbols(tree[1])) = Len(freq)
        /\ Len(InternalNumbers(tree[1])) = Len(freq) - 1
        /\ \A k \in Keys(freq) : Occurrences(LeafSymbols(tree[1]), k) = 1
        /\ \A i \in 1..Len(LeafSymbols(tree[1])) : LeafSymbols(tree[1])[i] \in Keys(freq)

C25_Witness ==
    /\ pc = "built"
    /\ Len(freq) = 3
    /\ IsFullTree(tree[1])
    /\ Len(InternalNumbers(tree[1])) = 2

\* C26: in build_huffman_tree the working list is sorted ascending by
\* weight after the sort and after every iteration of the loop; every one of
\* the n - 1 iterations shortens it by one entry and keeps the sum of its
\* weights at the sum of the frequencies, so the loop ends with one entry.
C26_WorkingList ==
    (pc = "merging" /\ freq # <<>>) =>
        /\ \A i \in 1..(Len(data) - 1) : data[i][2] <= data[i + 1][2]
        /\ iters \in 0..(Len(freq) - 1)
        /\ Len(data) = iters + 1
        /\ SumSeq([i \in 1..Len(data) |-> data[i][2]]) = SumValues(freq)

C26_Witness ==
    /\ pc = "merging"
    /\ Len(freq) = 3
    /\ iters = 1
    /\ Len(data) = 2
    /\ ~IsInt(data[2][1])
    /\ IsInt(data[1][1])

RECURSIVE Inorder(_)
\* the items of a BinarySearchTree: left subtree, root, right subtree
Inorder(self) ==
    IF self.root = None THEN <<>>
    ELSE Inorder(self.left[1]) \o <<self.root[1]>> \o Inorder(self.right[1])

\* C23: for every BinarySearchTree that keeps the representation invariant
\* (equal items may sit on either side) and every item, count returns the
\* number of occurrences of the item in the tree.
C23_CountOccurrences ==
    pc = "count" => returned = Some(Occurrences(Inorder(bst), arg_item))

LessThanItem(v) == v < arg_item

\* C24: for every BinarySearchTree that keeps the representation invariant
\* and every item, smaller returns the items strictly smaller than the item,
\* all of them and nothing else, in ascending order.
C24_SmallerItems ==
    pc = "smaller" => returned = Some(SelectSeq(Inorder(bst), LessThanItem))

C28_CancelledLeavesList ==
    /\ [](\A r \in RiderIds :
             riders[r].status = CANCELLED => ~IsIn(waiting_list_rider, r))
    /\ [][DriverRequestDo =>
             (waiting_list_rider # <<>> =>
                 riders[rider_popped(waiting_list_rider)].status # CANCELLED)]_vars

\* the activities of a rider that tell of a pickup or of a cancellation
PickupsAndCancels(r) ==
    {i \in 1..Len(activities[<<RIDER, r>>]) :
        activities[<<RIDER, r>>][i].description \in {PICKUP, CANCEL}}

\* C30: every rider starts WAITING; a status changes only from WAITING, to
\* CANCELLED by a Cancellation or to SATISFIED by a Pickup, in whatever order
\* the pending events are done; the monitor is told of at most one of the
\* pickup and the cancellation of a rider; a pending Dropoff is for a rider
\* who is SATISFIED.
C30_RiderStatus ==
    /\ [](/\ pc = "simulation" => \A r \in RiderIds : riders[r].status = WAITING
          /\ \A r \in RiderIds :
                /\ riders[r].status \in {WAITING, CANCELLED, SATISFIED}
                /\ Cardinality(PickupsAndCancels(r)) <= 1
          /\ \A i \in 1..Len(events) :
                events[i].kind = "Dropoff" => riders[events[i].rider[1]].status = SATISFIED)
    /\ [][\A r \in RiderIds :
             riders'[r].status # riders[r].status =>
                /\ riders[r].status = WAITING
                /\ \/ riders'[r].status = CANCELLED /\ pc' = "Cancellation"
                   \/ riders'[r].status = SATISFIED /\ pc' = "Pickup"]_vars

\* a Pickup has just found its rider cancelled, a Cancellation of the other
\* rider, who was picked up and is on the way, is still pending
C30_Witness ==
    /\ pc = "Pickup"
    /\ \E r, q \in RiderIds :
          /\ riders[r].status = CANCELLED
          /\ \E d \in DriverIds : \E k \in 1..Len(activities[<<DRIVER, d>>]) :
                /\ activities[<<DRIVER, d>>][k].description = CANCEL
                /\ activities[<<DRIVER, d>>][k].location = riders[r].origin
          /\ riders[q].status = SATISFIED
          /\ \E i, j \in 1..Len(events) :
                /\ events[i].kind = "Dropoff" /\ events[i].rider = Some(q)
                /\ events[j].kind = "Cancellation" /\ events[j].rider = Some(q)

====
